---- MODULE Spec2Model ----
(***************************************************************************)
(* The Create Flavor and Edit Flavor workflows of                          *)
(* openstack_dashboard/dashboards/admin/flavors/workflows.py.              *)
(*                                                                         *)
(* One workflow execution is modelled: the info step's clean(), the        *)
(* access step's form (__init__) and contribute(), and the finalize        *)
(* handler, which is stepped                                               *)
(* one remote call at a time.  Every remote call is recorded in `calls`    *)
(* with its arguments and its outcome; the outcome of a remote call        *)
(* (success, failure, value returned) is an input of the model.            *)
(* The sizing fields (vcpus, memory_mb, disk_gb, eph_gb, swap_mb) are      *)
(* passed through to flavor_create untouched and are left out.             *)
(***************************************************************************)
EXTENDS Naturals, Sequences, FiniteSets

-----------------------------------------------------------------------------
(* Bounds of the model *)

\* longest access-list selection (flavor_access) submitted
MaxAccess == 2
\* longest flavor listing returned by api.nova.flavor_list
MaxListing == 2

-----------------------------------------------------------------------------
(* Value universes *)

\* Python's None / a key that is absent from a dict when read with .get()
NoneVal == "<None>"

Names == {"m1.tiny", "m1.small", "m1.large"}
\* ids of flavors that exist in the remote store
FlavorIds == {"1", "2", "3"}
\* what the ID field of the create form can hold after static validation
\* (required=False: blank is allowed; 'auto'; an integer)
SubmittedIds == {"", "auto", "1", "2", "3", "4"}
\* ids the server generates when flavor_create is given 'auto' or no id
GeneratedIds == {"g1", "g2"}
Projects == {"p1", "p2"}
\* extra specs mappings (raw=True dict), as sets of <<key, value>> pairs
ExtraSpecs == SUBSET {<<"k1", "v1">>, <<"k2", "v2">>}

\* the form field names of the access step (get_member_field_name('member'),
\* get_default_role_field_name())
MemberFieldName == "update_flavor_access_role_member"
DefaultRoleFieldName == "default_update_flavor_access_role"

SeqsUpTo(S, n) == UNION {[1..k -> S] : k \in 0..n}

\* access-list selections the multiple-choice field can submit
Selections == SeqsUpTo(Projects, MaxAccess)

Flavor(id, name) == [id |-> id, name |-> name]

\* flavor listings: ids and names are unique among the flavors of the store
FlavorLists ==
    {fs \in SeqsUpTo({Flavor(i, n) : i \in FlavorIds, n \in Names}, MaxListing) :
        \A i, j \in 1..Len(fs) :
            i # j => fs[i].id # fs[j].id /\ fs[i].name # fs[j].name}

\* what api.nova.flavor_list does: return a list, return None, or raise
Listings ==
    {[kind |-> "list", items |-> fs] : fs \in FlavorLists}
        \cup {[kind |-> "None", items |-> <<>>], [kind |-> "raise", items |-> <<>>]}

-----------------------------------------------------------------------------
(* Dicts *)

EmptyDict == [k \in {} |-> NoneVal]

\* d.get(k)
Get(d, k) == IF k \in DOMAIN d THEN d[k] ELSE NoneVal

\* d[k] = v
Put(d, k, v) == [x \in (DOMAIN d) \cup {k} |-> IF x = k THEN v ELSE d[x]]

\* submitted data of the access step: empty, or the role field with or
\* without the member field
AccessData ==
    {EmptyDict, Put(EmptyDict, DefaultRoleFieldName, "member")}
        \cup {Put(Put(EmptyDict, DefaultRoleFieldName, "member"), MemberFieldName, s) :
                s \in Selections}

-----------------------------------------------------------------------------
VARIABLES
    workflow,      \* "none" | "create" | "update": the workflow being executed
    pc,            \* position of the execution
    context,       \* the workflow's shared context (a dict)
    cleaned_data,  \* the info form's cleaned_data: [name, flavor_id]
    flavors,       \* clean(): what flavor_list returned (a member of Listings)
    cleanResult,   \* clean(): "none" | "ok" | "name_conflict" | "id_conflict" | "raise"
    flavor_id,     \* handle(): local flavor_id
    flavor_access, \* handle(): local flavor_access / flavor_projects
    is_public,     \* handle(): local is_public
    extras_dict,   \* UpdateFlavor.handle(): local extras_dict
    flavor,        \* handle(): id of the flavor returned by flavor_create
    idx,           \* handle(): position of the grant loop in flavor_access
    calls,         \* history: the remote calls issued by handle(), in order
    messages,      \* history: messages given to exceptions.handle
    result,        \* "none" | "True" | "False": what handle() returned
    request,       \* access step: the request's method and what the remote
                   \* calls of UpdateFlavorAccessAction.__init__ answer
    member_field   \* access step: the member field built by __init__

formVars == <<cleaned_data, flavors, cleanResult>>
accessVars == <<request, member_field>>
localVars == <<flavor_id, flavor_access, is_public, extras_dict, flavor, idx>>
histVars == <<calls, messages, result>>
vars == <<workflow, pc, context, formVars, accessVars, localVars, histVars>>

-----------------------------------------------------------------------------
(* Step 1: validation *)

\* the loop of CreateFlavorInfoAction.clean over the listing, in list order
RECURSIVE CreateConflict_NoIdCheck(_, _, _)
CreateConflict_NoIdCheck(fs, name, fid) ==
    IF fs = <<>> THEN "ok"
    ELSE IF Head(fs).name = name THEN "name_conflict"
    ELSE CreateConflict_NoIdCheck(Tail(fs), name, fid)

RECURSIVE CreateConflict_IdFirst(_, _, _)
CreateConflict_IdFirst(fs, name, fid) ==
    IF fs = <<>> THEN "ok"
    ELSE IF Head(fs).id = fid THEN "id_conflict"
    ELSE IF Head(fs).name = name THEN "name_conflict"
    ELSE CreateConflict_IdFirst(Tail(fs), name, fid)

RECURSIVE CreateConflict(_, _, _)
CreateConflict(fs, name, fid) ==
    IF fs = <<>> THEN "ok"
    ELSE IF Head(fs).name = name THEN "name_conflict"
    ELSE IF Head(fs).id = fid THEN "id_conflict"
    ELSE CreateConflict(Tail(fs), name, fid)

\* CreateFlavorInfoAction.clean: the outcome for a listing and a submission;
\* a failed listing call sets flavors = [] and re-raises
CreateFlavorInfoAction_clean_Swallow(listing, name, fid) ==
    IF listing.kind = "None" THEN "ok"
    ELSE CreateConflict(listing.items, name, fid)

CreateFlavorInfoAction_clean(listing, name, fid) ==
    IF listing.kind = "raise" THEN "raise"
    ELSE IF listing.kind = "None" THEN "ok"
    ELSE CreateConflict(listing.items, name, fid)

\* the loop of UpdateFlavorInfoAction.clean over the listing
RECURSIVE UpdateConflict_NoExclusion(_, _, _)
UpdateConflict_NoExclusion(fs, name, fid) ==
    IF fs = <<>> THEN "ok"
    ELSE IF Head(fs).name = name THEN "name_conflict"
    ELSE UpdateConflict_NoExclusion(Tail(fs), name, fid)

RECURSIVE UpdateConflict(_, _, _)
UpdateConflict(fs, name, fid) ==
    IF fs = <<>> THEN "ok"
    ELSE IF Head(fs).name = name /\ Head(fs).id # fid THEN "name_conflict"
    ELSE UpdateConflict(Tail(fs), name, fid)

\* UpdateFlavorInfoAction.clean
UpdateFlavorInfoAction_clean_Swallow(listing, name, fid) ==
    IF listing.kind = "None" THEN "ok"
    ELSE UpdateConflict(listing.items, name, fid)

UpdateFlavorInfoAction_clean(listing, name, fid) ==
    IF listing.kind = "raise" THEN "raise"
    ELSE IF listing.kind = "None" THEN "ok"
    ELSE UpdateConflict(listing.items, name, fid)

-----------------------------------------------------------------------------
(* The steps as declared *)

\* CreateFlavor.default_steps, UpdateFlavor.default_steps
default_steps_AccessFirst(w) ==
    IF w = "create"
    THEN <<"UpdateFlavorAccess", "CreateFlavorInfo">>
    ELSE <<"UpdateFlavorAccess", "UpdateFlavorInfo">>

default_steps(w) ==
    IF w = "create"
    THEN <<"CreateFlavorInfo", "UpdateFlavorAccess">>
    ELSE <<"UpdateFlavorInfo", "UpdateFlavorAccess">>

\* Step.depends_on
depends_on(step) ==
    CASE step = "CreateFlavorInfo" -> {}
      [] step = "UpdateFlavorInfo" -> {"flavor_id"}
      [] step = "UpdateFlavorAccess" -> {"flavor_id"}

\* Step.contributes (the sizing fields are left out)
contributes(step) ==
    CASE step = "CreateFlavorInfo" -> {"flavor_id", "name"}
      [] step = "UpdateFlavorInfo" -> {"name"}
      [] step = "UpdateFlavorAccess" -> {"flavor_access"}

\* the info step of a workflow
InfoStep(w) == IF w = "create" THEN "CreateFlavorInfo" ELSE "UpdateFlavorInfo"

\* where the execution is when a step starts
StepPc(step) == IF step = "UpdateFlavorAccess" THEN "access" ELSE "info"

\* the sequencer: steps run in declaration order, then the workflow is
\* finalized
FirstPc(w) == StepPc(default_steps(w)[1])

NextPc(w, step) ==
    LET steps == default_steps(w)
        i == CHOOSE k \in 1..Len(steps) : steps[k] = step
    IN  IF i < Len(steps) THEN StepPc(steps[i + 1]) ELSE "finalize"

\* the sequencer: a step runs only with the fields it depends on in the context
DependsSatisfied(step, ctx) == depends_on(step) \subseteq DOMAIN ctx

-----------------------------------------------------------------------------
(* The access step's form *)

NoRequest ==
    [method |-> NoneVal, tenants_ok |-> FALSE, get |-> NoneVal,
     access |-> NoneVal, projects |-> <<>>]

NoField == [choices |-> {}, has_initial |-> FALSE, initial |-> <<>>]

\* a request to the access step: its method, whether tenant_list succeeds,
\* what flavor_get answers (it raises, or the flavor is public or not) and
\* what flavor_access_list answers (it raises, or the projects granted)
Requests ==
    {[method |-> m, tenants_ok |-> t, get |-> g, access |-> "raise", projects |-> <<>>] :
        m \in {"GET", "POST"}, t \in BOOLEAN, g \in {"raise", "public", "private"}}
    \cup
    {[method |-> m, tenants_ok |-> t, get |-> g, access |-> "list", projects |-> ps] :
        m \in {"GET", "POST"}, t \in BOOLEAN, g \in {"raise", "public", "private"},
        ps \in Selections}

\* lines 135-144: whether the lookup of the flavor's access list raises
LookupRaises(req, fid) ==
    /\ fid # NoneVal /\ fid # ""
    /\ \/ req.get = "raise"
       \/ req.get = "private" /\ req.access = "raise"

\* lines 135-146: the initial selection on a request that is not a POST
InitialAccess_IgnorePublic(req, fid) ==
    IF fid = NoneVal \/ fid = "" THEN <<>>
    ELSE IF req.get = "raise" THEN <<>>
    ELSE IF req.access = "raise" THEN <<>>
    ELSE req.projects

InitialAccess(req, fid) ==
    IF fid = NoneVal \/ fid = "" THEN <<>>
    ELSE IF req.get = "raise" THEN <<>>
    ELSE IF req.get = "public" THEN <<>>
    ELSE IF req.access = "raise" THEN <<>>
    ELSE req.projects

err_msg == "Unable to retrieve flavor access list. Please try again later."

-----------------------------------------------------------------------------
Init ==
    /\ workflow = "none"
    /\ pc = "idle"
    /\ context = EmptyDict
    /\ cleaned_data = [name |-> NoneVal, flavor_id |-> NoneVal]
    /\ flavors = [kind |-> "None", items |-> <<>>]
    /\ cleanResult = "none"
    /\ flavor_id = NoneVal
    /\ flavor_access = <<>>
    /\ is_public = FALSE
    /\ extras_dict = {}
    /\ flavor = NoneVal
    /\ idx = 0
    /\ calls = <<>>
    /\ messages = <<>>
    /\ result = "none"
    /\ request = NoRequest
    /\ member_field = NoField

-----------------------------------------------------------------------------
(* The workflow's steps *)

Message(msg, arg) == [msg |-> msg, arg |-> arg]

\* exceptions.check_message(["Connection", "refused"], msg) inside an except
\* clause: when the text of the exception holds the keywords, msg becomes the
\* message shown for it; the exception goes on either way
check_message(keywords_found, msg, msgs) ==
    IF keywords_found THEN Append(msgs, Message(msg, NoneVal)) ELSE msgs

\* exceptions.handle(request, message) inside an except clause: the failure
\* is reported with the message and the call returns
exceptions_handle(msg, arg, msgs) == Append(msgs, Message(msg, arg))

\* whether the text of a raised exception holds "Connection" and "refused"
KeywordsFound(listing) == IF listing.kind = "raise" THEN BOOLEAN ELSE {FALSE}

\* the Create Flavor workflow is opened: an empty context
StartCreate ==
    /\ pc = "idle"
    /\ workflow' = "create"
    /\ context' = EmptyDict
    /\ pc' = FirstPc("create")
    /\ UNCHANGED accessVars
    /\ UNCHANGED <<formVars, localVars, histVars>>

\* the Edit Flavor workflow is opened on an existing flavor: the context is
\* seeded with its flavor_id, which both steps depend on
StartUpdate ==
    /\ pc = "idle"
    /\ \E fid \in FlavorIds :
        context' = Put(EmptyDict, "flavor_id", fid)
    /\ workflow' = "update"
    /\ pc' = FirstPc("update")
    /\ UNCHANGED accessVars
    /\ UNCHANGED <<formVars, localVars, histVars>>

\* the create form's info step is submitted and CreateFlavorInfoAction.clean runs
CreateInfoClean ==
    /\ pc = "info"
    /\ workflow = "create"
    /\ DependsSatisfied("CreateFlavorInfo", context)
    /\ \E name \in Names, fid \in SubmittedIds, listing \in Listings :
        /\ cleaned_data' = [name |-> name, flavor_id |-> fid]
        /\ flavors' = listing
        /\ cleanResult' = CreateFlavorInfoAction_clean(listing, name, fid)
        /\ \E found \in KeywordsFound(listing) :
            messages' = check_message(found, "Unable to get flavor list", messages)
    /\ pc' = "info_cleaned"
    /\ UNCHANGED accessVars
    /\ UNCHANGED <<workflow, context, localVars, calls, result>>

\* the edit form's info step is submitted and UpdateFlavorInfoAction.clean
\* runs; flavor_id is the hidden field, which carries the context's flavor_id
UpdateInfoClean ==
    /\ pc = "info"
    /\ workflow = "update"
    /\ DependsSatisfied("UpdateFlavorInfo", context)
    /\ \E name \in Names, listing \in Listings :
        LET fid == Get(context, "flavor_id") IN
        /\ cleaned_data' = [name |-> name, flavor_id |-> fid]
        /\ flavors' = listing
        /\ cleanResult' = UpdateFlavorInfoAction_clean(listing, name, fid)
        /\ \E found \in KeywordsFound(listing) :
            messages' = check_message(found, "Unable to get flavor list", messages)
    /\ pc' = "info_cleaned"
    /\ UNCHANGED accessVars
    /\ UNCHANGED <<workflow, context, localVars, calls, result>>

\* what the info step contributes to the context (Step.contribute over
\* `contributes`): create contributes flavor_id and name, update only name
InfoContribute(w, data, ctx) ==
    LET keys == contributes(InfoStep(w))
    IN  [k \in (DOMAIN ctx) \cup keys |-> IF k \in keys THEN data[k] ELSE ctx[k]]

\* after clean(): a valid step is merged into the context and the access
\* step follows; a ValidationError redisplays the step; any other exception
\* leaves the workflow
InfoAdvance ==
    /\ pc = "info_cleaned"
    /\ pc' = CASE cleanResult = "ok" -> NextPc(workflow, InfoStep(workflow))
               [] cleanResult = "raise" -> "raised"
               [] OTHER -> "info"
    /\ context' = IF cleanResult = "ok"
                  THEN InfoContribute(workflow, cleaned_data, context)
                  ELSE context
    /\ cleaned_data' = [name |-> NoneVal, flavor_id |-> NoneVal]
    /\ flavors' = [kind |-> "None", items |-> <<>>]
    /\ cleanResult' = "none"
    /\ UNCHANGED accessVars
    /\ UNCHANGED <<workflow, localVars, histVars>>

\* UpdateFlavorAccess.contribute(data, context)
contribute_DropContext(data, ctx) ==
    IF DOMAIN data # {}
    THEN Put(EmptyDict, "flavor_access",
             IF MemberFieldName \in DOMAIN data THEN data[MemberFieldName] ELSE <<>>)
    ELSE ctx

contribute(data, ctx) ==
    IF DOMAIN data # {}
    THEN Put(ctx, "flavor_access",
             IF MemberFieldName \in DOMAIN data THEN data[MemberFieldName] ELSE <<>>)
    ELSE ctx

\* UpdateFlavorAccessAction.__init__: the access step's form is built for a
\* request; exceptions.handle reports a failed call and returns
AccessInit ==
    /\ pc = "access"
    /\ DependsSatisfied("UpdateFlavorAccess", context)
    /\ \E req \in Requests :
        LET fid == Get(context, "flavor_id")
            tenant_msgs == IF req.tenants_ok THEN messages
                           ELSE exceptions_handle(err_msg, NoneVal, messages)
        IN  /\ request' = req
            /\ IF req.method = "POST"
               THEN /\ member_field' = [choices |-> IF req.tenants_ok THEN Projects ELSE {},
                                        has_initial |-> FALSE, initial |-> <<>>]
                    /\ messages' = tenant_msgs
               ELSE /\ member_field' = [choices |-> IF req.tenants_ok THEN Projects ELSE {},
                                        has_initial |-> TRUE,
                                        initial |-> InitialAccess(req, fid)]
                    /\ messages' = IF LookupRaises(req, fid)
                                   THEN exceptions_handle(err_msg, NoneVal, tenant_msgs)
                                   ELSE tenant_msgs
    /\ pc' = "access_form"
    /\ UNCHANGED <<workflow, context, formVars, localVars, calls, result>>

\* the access step is submitted and contributes to the context (the form
\* shown for a GET is the one whose submission is taken here)
AccessContribute ==
    /\ pc = "access_form"
    /\ \E data \in AccessData :
        context' = contribute(data, context)
    /\ pc' = NextPc(workflow, "UpdateFlavorAccess")
    /\ request' = NoRequest
    /\ member_field' = NoField
    /\ UNCHANGED <<workflow, formVars, localVars, histVars>>

-----------------------------------------------------------------------------
(* Finalize: what both handlers share *)

\* a remote call as recorded in `calls`
Call(op, fl, project, extras, public, ok, ret) ==
    [op |-> op, flavor |-> fl, project |-> project, extras |-> extras,
     is_public |-> public, ok |-> ok, ret |-> ret]

\* is_public = not flavor_access
IsPublic_Always(access) == TRUE

IsPublic(access) == access = <<>>

\* data.get('flavor_id') or 'auto'
FlavorIdOrAuto_AsSubmitted(fid) == fid

FlavorIdOrAuto(fid) == IF fid = NoneVal \/ fid = "" THEN "auto" ELSE fid

\* the id of the flavor a successful flavor_create returns: the id asked for,
\* or a generated one when it is given 'auto' or no id
ReturnedIds(flavorid) ==
    IF flavorid = "auto" \/ flavorid = NoneVal THEN GeneratedIds ELSE {flavorid}

\* the flavor a grant call addresses: the id of the flavor that flavor_create
\* returned (flavor_id = self.object.id; flavor.id), not the id in the context
GrantTarget_Submitted(created_id, fid) == fid

GrantTarget(created_id, fid) == created_id

\* the project of the i-th pass of `for project in flavor_access`
GrantProject_First(access, i) == access[1]

GrantProject(access, i) == access[i]

-----------------------------------------------------------------------------
(* CreateFlavor.handle *)

\* after flavor_create: on to the grant loop, or to the except clause
CreateAfterCreate_Continue(ok) == "c_grant"

CreateAfterCreate_AlwaysFail(ok) == "c_except"

CreateAfterCreate(ok) == IF ok THEN "c_grant" ELSE "c_except"

\* after one add_tenant_to_flavor: its exception is handled inside the loop
CreateAfterGrant_Abort(ok) == IF ok THEN "c_grant" ELSE "c_except"

CreateAfterGrant(ok) == "c_grant"

\* lines 190-192: the locals; data['flavor_access'] raises KeyError when the
\* access step contributed nothing
CreateHandleBegin ==
    /\ pc = "finalize"
    /\ workflow = "create"
    /\ IF "flavor_access" \in DOMAIN context
       THEN /\ flavor_id' = FlavorIdOrAuto(Get(context, "flavor_id"))
            /\ flavor_access' = context["flavor_access"]
            /\ is_public' = IsPublic(context["flavor_access"])
            /\ pc' = "c_create"
       ELSE /\ pc' = "raised"
            /\ UNCHANGED <<flavor_id, flavor_access, is_public>>
    /\ UNCHANGED accessVars
    /\ UNCHANGED <<workflow, context, formVars, extras_dict, flavor, idx, histVars>>

\* lines 195-204 and 210: api.nova.flavor_create
CreateHandleCreate ==
    /\ pc = "c_create"
    /\ \E ok \in BOOLEAN :
        \E ret \in (IF ok THEN ReturnedIds(flavor_id) ELSE {NoneVal}) :
            /\ calls' = Append(calls, Call("flavor_create", flavor_id, NoneVal, {},
                                           is_public, ok, ret))
            /\ flavor' = ret
            /\ pc' = CreateAfterCreate(ok)
    /\ idx' = 1
    /\ UNCHANGED accessVars
    /\ UNCHANGED <<workflow, context, formVars, flavor_id, flavor_access,
                   is_public, extras_dict, messages, result>>

\* lines 205-207: except Exception: exceptions.handle(...); return False
CreateHandleExcept ==
    /\ pc = "c_except"
    /\ messages' = exceptions_handle("Unable to create flavor.", NoneVal, messages)
    /\ result' = "False"
    /\ pc' = "done"
    /\ UNCHANGED accessVars
    /\ UNCHANGED <<workflow, context, formVars, localVars, calls>>

\* lines 211-217: one pass of the grant loop
CreateHandleGrant ==
    /\ pc = "c_grant"
    /\ idx <= Len(flavor_access)
    /\ \E ok \in BOOLEAN :
        LET project == GrantProject(flavor_access, idx) IN
        /\ calls' = Append(calls, Call("add_tenant_to_flavor",
                                       GrantTarget(flavor, flavor_id), project, {},
                                       FALSE, ok, NoneVal))
        /\ messages' = IF ok THEN messages
                       ELSE exceptions_handle("Unable to set flavor access for project %s.",
                                              project, messages)
        /\ pc' = CreateAfterGrant(ok)
    /\ idx' = idx + 1
    /\ UNCHANGED accessVars
    /\ UNCHANGED <<workflow, context, formVars, flavor_id, flavor_access,
                   is_public, extras_dict, flavor, result>>

\* line 218: return True
CreateHandleReturn ==
    /\ pc = "c_grant"
    /\ idx > Len(flavor_access)
    /\ result' = "True"
    /\ pc' = "done"
    /\ UNCHANGED accessVars
    /\ UNCHANGED <<workflow, context, formVars, localVars, calls, messages>>

-----------------------------------------------------------------------------
(* UpdateFlavor.handle *)

\* after flavor_get_extras: the read is inside the try block
UpdateAfterExtras_BestEffort(ok) == "u_delete"

UpdateAfterExtras(ok) == IF ok THEN "u_delete" ELSE "u_except"

\* after flavor_delete
UpdateAfterDelete_Continue(ok) == "u_create"

UpdateAfterDelete(ok) == IF ok THEN "u_create" ELSE "u_except"

\* after flavor_create: if (extras_dict): flavor_extra_set(...)
UpdateAfterCreate(ok, extras) ==
    IF ~ok THEN "u_except"
    ELSE IF extras # {} THEN "u_extra_set"
    ELSE "u_grant"

\* the arguments of flavor_extra_set(request, flavor.id, extras_dict)
ExtraSetArgs_OldId(new_id, old_id, extras) == [flavor |-> old_id, extras |-> extras]

ExtraSetArgs(new_id, old_id, extras) == [flavor |-> new_id, extras |-> extras]

\* after flavor_extra_set
UpdateAfterExtraSet_Ignore(ok) == "u_grant"

UpdateAfterExtraSet(ok) == IF ok THEN "u_grant" ELSE "u_except"

\* after one add_tenant_to_flavor
UpdateAfterGrant(ok) == "u_grant"

\* lines 274-279: the locals; data["flavor_access"] is read outside the try
\* block, data['flavor_id'] inside it
UpdateHandleBegin ==
    /\ pc = "finalize"
    /\ workflow = "update"
    /\ IF "flavor_access" \notin DOMAIN context
       THEN /\ pc' = "raised"
            /\ UNCHANGED <<flavor_id, flavor_access, is_public>>
       ELSE /\ flavor_access' = context["flavor_access"]
            /\ is_public' = IsPublic(context["flavor_access"])
            /\ flavor_id' = Get(context, "flavor_id")
            /\ pc' = IF "flavor_id" \in DOMAIN context THEN "u_extras" ELSE "u_except"
    /\ UNCHANGED accessVars
    /\ UNCHANGED <<workflow, context, formVars, extras_dict, flavor, idx, histVars>>

\* lines 282-284: api.nova.flavor_get_extras(self.request, flavor_id, raw=True)
UpdateHandleGetExtras ==
    /\ pc = "u_extras"
    /\ \E ok \in BOOLEAN :
        \E extras \in (IF ok THEN ExtraSpecs ELSE {{}}) :
            /\ calls' = Append(calls, Call("flavor_get_extras", flavor_id, NoneVal,
                                           extras, FALSE, ok, NoneVal))
            /\ extras_dict' = extras
            /\ pc' = UpdateAfterExtras(ok)
    /\ UNCHANGED accessVars
    /\ UNCHANGED <<workflow, context, formVars, flavor_id, flavor_access,
                   is_public, flavor, idx, messages, result>>

\* line 286: api.nova.flavor_delete(request, flavor_id)
UpdateHandleDelete ==
    /\ pc = "u_delete"
    /\ \E ok \in BOOLEAN :
        /\ calls' = Append(calls, Call("flavor_delete", flavor_id, NoneVal, {},
                                       FALSE, ok, NoneVal))
        /\ pc' = UpdateAfterDelete(ok)
    /\ UNCHANGED accessVars
    /\ UNCHANGED <<workflow, context, formVars, localVars, messages, result>>

\* lines 291-298: api.nova.flavor_create, given no flavorid
UpdateHandleCreate ==
    /\ pc = "u_create"
    /\ \E ok \in BOOLEAN :
        \E ret \in (IF ok THEN ReturnedIds(NoneVal) ELSE {NoneVal}) :
            /\ calls' = Append(calls, Call("flavor_create", NoneVal, NoneVal, {},
                                           is_public, ok, ret))
            /\ flavor' = ret
            /\ pc' = UpdateAfterCreate(ok, extras_dict)
    /\ idx' = 1
    /\ UNCHANGED accessVars
    /\ UNCHANGED <<workflow, context, formVars, flavor_id, flavor_access,
                   is_public, extras_dict, messages, result>>

\* line 300: api.nova.flavor_extra_set(request, flavor.id, extras_dict)
UpdateHandleExtraSet ==
    /\ pc = "u_extra_set"
    /\ \E ok \in BOOLEAN :
        LET args == ExtraSetArgs(flavor, flavor_id, extras_dict) IN
        /\ calls' = Append(calls, Call("flavor_extra_set", args.flavor, NoneVal,
                                       args.extras, FALSE, ok, NoneVal))
        /\ pc' = UpdateAfterExtraSet(ok)
    /\ UNCHANGED accessVars
    /\ UNCHANGED <<workflow, context, formVars, localVars, messages, result>>

\* lines 301-303: except Exception: exceptions.handle(request, ignore=True);
\* return False
UpdateHandleExcept ==
    /\ pc = "u_except"
    /\ result' = "False"
    /\ pc' = "done"
    /\ UNCHANGED accessVars
    /\ UNCHANGED <<workflow, context, formVars, localVars, calls, messages>>

\* lines 306-312: one pass of the grant loop
UpdateHandleGrant ==
    /\ pc = "u_grant"
    /\ idx <= Len(flavor_access)
    /\ \E ok \in BOOLEAN :
        LET project == GrantProject(flavor_access, idx) IN
        /\ calls' = Append(calls, Call("add_tenant_to_flavor",
                                       GrantTarget(flavor, flavor_id), project, {},
                                       FALSE, ok, NoneVal))
        /\ messages' = IF ok THEN messages
                       ELSE exceptions_handle(
                                "Modified flavor information, but unable to modify flavor access.",
                                NoneVal, messages)
        /\ pc' = UpdateAfterGrant(ok)
    /\ idx' = idx + 1
    /\ UNCHANGED accessVars
    /\ UNCHANGED <<workflow, context, formVars, flavor_id, flavor_access,
                   is_public, extras_dict, flavor, result>>

\* line 313: return True
UpdateHandleReturn ==
    /\ pc = "u_grant"
    /\ idx > Len(flavor_access)
    /\ result' = "True"
    /\ pc' = "done"
    /\ UNCHANGED accessVars
    /\ UNCHANGED <<workflow, context, formVars, localVars, calls, messages>>

-----------------------------------------------------------------------------
Next ==
    \/ StartCreate
    \/ StartUpdate
    \/ CreateInfoClean
    \/ UpdateInfoClean
    \/ InfoAdvance
    \/ AccessInit
    \/ AccessContribute
    \/ CreateHandleBegin
    \/ CreateHandleCreate
    \/ CreateHandleExcept
    \/ CreateHandleGrant
    \/ CreateHandleReturn
    \/ UpdateHandleBegin
    \/ UpdateHandleGetExtras
    \/ UpdateHandleDelete
    \/ UpdateHandleCreate
    \/ UpdateHandleExtraSet
    \/ UpdateHandleExcept
    \/ UpdateHandleGrant
    \/ UpdateHandleReturn

Spec == Init /\ [][Next]_vars

-----------------------------------------------------------------------------
(* Reading the history *)

CallsOf(op) == SelectSeq(calls, LAMBDA c : c.op = op)

GrantCalls == CallsOf("add_tenant_to_flavor")

\* the projects of the grant calls issued so far, in order
GrantedProjects == [i \in 1..Len(GrantCalls) |-> GrantCalls[i].project]

IsPrefix(s, t) == Len(s) <= Len(t) /\ \A i \in 1..Len(s) : s[i] = t[i]

Failed(op) == \E i \in 1..Len(calls) : calls[i].op = op /\ ~calls[i].ok

Succeeded(op) == \E i \in 1..Len(calls) : calls[i].op = op /\ calls[i].ok

\* the access-list selection in the context (empty while there is none)
Selection ==
    IF "flavor_access" \in DOMAIN context THEN context["flavor_access"] ELSE <<>>

\* the core create/replace step succeeded: the create call succeeded and, in
\* Update, so did the reapplication of the retained extra specs if there was one
CoreStepSucceeded == Succeeded("flavor_create") /\ ~Failed("flavor_extra_set")

\* the indexes of the listed flavors that carry the submitted name / id
NameMatches ==
    {i \in 1..Len(flavors.items) : flavors.items[i].name = cleaned_data.name}

IdMatches ==
    {i \in 1..Len(flavors.items) : flavors.items[i].id = cleaned_data.flavor_id}

First(S) == CHOOSE i \in S : \A k \in S : i <= k

CreateCleaned == pc = "info_cleaned" /\ workflow = "create" /\ flavors.kind = "list"

UpdateCleaned == pc = "info_cleaned" /\ workflow = "update" /\ flavors.kind = "list"

-----------------------------------------------------------------------------
(* Claims *)

\* C1: Update finalize: if the delete call fails, no create call is issued and
\* the handler returns False; if the delete succeeds and the create call
\* fails, the handler returns False and the failed create is the last call of
\* that finalize (no second create, no recreate of the old flavor).
C1_UpdateDeleteCreateFailure ==
    workflow = "update" =>
        /\ Failed("flavor_delete") =>
            /\ CallsOf("flavor_create") = <<>>
            /\ result # "True"
            /\ pc = "done" => result = "False"
        /\ Failed("flavor_create") =>
            /\ Len(CallsOf("flavor_create")) = 1
            /\ calls[Len(calls)].op = "flavor_create"
            /\ result # "True"
            /\ pc = "done" => result = "False"

C1_Witness ==
    /\ workflow = "update"
    /\ pc = "done"
    /\ Succeeded("flavor_delete")
    /\ Failed("flavor_create")
    /\ result = "False"

\* C2 as stated: in every finished finalize the grant calls attempted are
\* exactly the projects of the selection, one call per selected project.
C2_Original ==
    pc = "done" => GrantedProjects = Selection

\* C2 amended: the grant calls issued so far are always a prefix of the
\* selection; a finished finalize whose core create/replace step succeeded has
\* attempted exactly one grant per selected project (none for an empty
\* selection), and one whose core step failed has attempted none.
C2_GrantsPerSelectedProject ==
    /\ IsPrefix(GrantedProjects, Selection)
    /\ pc = "done" =>
        IF CoreStepSucceeded
        THEN GrantedProjects = Selection
        ELSE GrantedProjects = <<>>

C2_Witness ==
    /\ pc = "done"
    /\ workflow = "update"
    /\ Len(Selection) = 2
    /\ Selection[1] # Selection[2]
    /\ GrantedProjects = Selection

\* C3: once the core create/replace step has succeeded, a finished finalize
\* has returned True and has attempted a grant for every position of the
\* selection, whichever of the grant calls failed.
C3_GrantFailuresDoNotAbort ==
    (pc = "done" /\ CoreStepSucceeded) =>
        /\ result = "True"
        /\ Len(GrantCalls) = Len(Selection)
        /\ \A i \in 1..Len(Selection) : GrantCalls[i].project = Selection[i]

C3_Witness ==
    /\ pc = "done"
    /\ workflow = "create"
    /\ result = "True"
    /\ Len(GrantCalls) = 2
    /\ ~GrantCalls[1].ok
    /\ GrantCalls[2].ok

\* C4: Update finalize: every flavor_extra_set call carries the non-empty
\* mapping that flavor_get_extras returned, unchanged, and targets the id
\* returned by the successful create; once the create has succeeded and the
\* handler is past the reapplication, there is exactly one such call when the
\* retained mapping is non-empty and none when it is empty.
C4_ExtrasReapplied ==
    workflow = "update" =>
        LET reads == CallsOf("flavor_get_extras")
            creates == CallsOf("flavor_create")
            sets == CallsOf("flavor_extra_set")
        IN  /\ \A i \in 1..Len(sets) :
                /\ Len(reads) = 1 /\ reads[1].ok
                /\ Len(creates) = 1 /\ creates[1].ok
                /\ sets[i].extras = reads[1].extras
                /\ sets[i].extras # {}
                /\ sets[i].flavor = creates[1].ret
            /\ (Succeeded("flavor_create") /\ pc \in {"u_grant", "u_except", "done"}) =>
                Len(sets) = (IF reads[1].extras # {} THEN 1 ELSE 0)

C4_Witness ==
    /\ workflow = "update"
    /\ pc = "done"
    /\ result = "True"
    /\ Len(CallsOf("flavor_extra_set")) = 1
    /\ Cardinality(CallsOf("flavor_extra_set")[1].extras) = 2
    /\ CallsOf("flavor_extra_set")[1].ok

\* C5 as stated: when the read of the extra specs fails, the delete and the
\* create call are still issued.
C5_Original ==
    (workflow = "update" /\ pc = "done" /\ Failed("flavor_get_extras")) =>
        /\ CallsOf("flavor_delete") # <<>>
        /\ CallsOf("flavor_create") # <<>>

\* C5 amended: the read of the extra specs is inside the failure scope: when
\* it fails it is the only call of the finalize (no delete, no create, no
\* set, no grant) and the handler returns False.
C5_ExtrasReadFailureAborts ==
    (workflow = "update" /\ Failed("flavor_get_extras")) =>
        /\ Len(calls) = 1
        /\ result # "True"
        /\ pc = "done" => result = "False"

C5_Witness ==
    /\ workflow = "update"
    /\ pc = "done"
    /\ Failed("flavor_get_extras")
    /\ result = "False"

\* C6 as stated: a submitted name carried by a listed flavor always gives the
\* name-conflict error.
C6_Original ==
    (CreateCleaned /\ NameMatches # {}) => cleanResult = "name_conflict"

\* C6 amended: a submitted name carried by a listed flavor always fails
\* validation: with the id-conflict error when a flavor listed before the
\* first one carrying the name has the submitted id, with the name-conflict
\* error otherwise.
C6_NameConflict ==
    (CreateCleaned /\ NameMatches # {}) =>
        cleanResult =
            IF \E j \in IdMatches : j < First(NameMatches)
            THEN "id_conflict"
            ELSE "name_conflict"

C6_Witness ==
    /\ CreateCleaned
    /\ NameMatches # {}
    /\ IdMatches # {}
    /\ cleanResult = "name_conflict"

\* C7 as stated: a submitted id carried by a listed flavor always gives the
\* id-conflict error.
C7_Original ==
    (CreateCleaned /\ IdMatches # {}) => cleanResult = "id_conflict"

\* C7 amended: a submitted id carried by a listed flavor always fails
\* validation: with the name-conflict error when that flavor, or one listed
\* before it, carries the submitted name, with the id-conflict error
\* otherwise.
C7_IdConflict ==
    (CreateCleaned /\ IdMatches # {}) =>
        cleanResult =
            IF \E j \in NameMatches : j <= First(IdMatches)
            THEN "name_conflict"
            ELSE "id_conflict"

C7_Witness ==
    /\ CreateCleaned
    /\ IdMatches # {}
    /\ NameMatches # {}
    /\ cleanResult = "id_conflict"

\* C8: Update validation fails with the name-conflict error exactly when a
\* listed flavor whose id differs from the workflow's flavor_id carries the
\* submitted name, succeeds otherwise (so also when the only carrier is the
\* flavor being edited), and never gives the id-conflict error.
C8_UpdateExcludesOwnFlavor ==
    /\ workflow = "update" => cleanResult # "id_conflict"
    /\ UpdateCleaned =>
        cleanResult =
            IF \E i \in NameMatches : flavors.items[i].id # Get(context, "flavor_id")
            THEN "name_conflict"
            ELSE "ok"

C8_Witness ==
    /\ UpdateCleaned
    /\ Len(flavors.items) = 2
    /\ \E i \in NameMatches : flavors.items[i].id = Get(context, "flavor_id")
    /\ cleanResult = "ok"

\* C9: the is_public flag of every create call is true exactly when the
\* access-list selection in the context is empty.
C9_PublicIffNoSelection ==
    \A i \in 1..Len(calls) :
        calls[i].op = "flavor_create" =>
            /\ "flavor_access" \in DOMAIN context
            /\ calls[i].is_public = (Len(context["flavor_access"]) = 0)

C9_Witness ==
    /\ workflow = "create"
    /\ Len(Selection) = 2
    /\ Succeeded("flavor_create")
    /\ ~CallsOf("flavor_create")[1].is_public

\* C10: the remote mutation calls are ordered: in Update a create call is
\* preceded by a successful delete call, every grant call is preceded by a
\* successful create call, and no delete or create call follows a grant call.
C10_CallOrder ==
    \A i \in 1..Len(calls) :
        /\ (workflow = "update" /\ calls[i].op = "flavor_create") =>
            \E j \in 1..(i - 1) : calls[j].op = "flavor_delete" /\ calls[j].ok
        /\ calls[i].op = "add_tenant_to_flavor" =>
            \E j \in 1..(i - 1) : calls[j].op = "flavor_create" /\ calls[j].ok
        /\ calls[i].op \in {"flavor_delete", "flavor_create"} =>
            \A j \in 1..(i - 1) : calls[j].op # "add_tenant_to_flavor"

C10_Witness ==
    /\ workflow = "update"
    /\ pc = "done"
    /\ Len(GrantCalls) = 2
    /\ Succeeded("flavor_delete")
    /\ Succeeded("flavor_create")

\* C11: Create finalize returns False exactly when its create call failed: it
\* returns True whenever the create call succeeded, whatever the grant calls
\* did, and a failed create is followed by no grant call.
C11_CreateFailsIffCreateCallFails ==
    workflow = "create" =>
        /\ result = "False" => Failed("flavor_create")
        /\ result = "True" => Succeeded("flavor_create")
        /\ pc = "done" => (result = "False" <=> Failed("flavor_create"))
        /\ (pc = "done" /\ Succeeded("flavor_create")) => result = "True"
        /\ Failed("flavor_create") => GrantCalls = <<>>

C11_Witness ==
    /\ workflow = "create"
    /\ pc = "done"
    /\ Failed("flavor_create")
    /\ Len(Selection) = 2
    /\ GrantCalls = <<>>
    /\ result = "False"

\* C12: when the flavor listing call fails during step-1 validation (create
\* or update), clean() ends by raising: it neither returns the cleaned data
\* nor reports a name or id conflict.
C12_ListingFailureReraised ==
    (pc = "info_cleaned" /\ flavors.kind = "raise") =>
        /\ cleanResult = "raise"
        /\ cleanResult \notin {"ok", "name_conflict", "id_conflict"}

C12_Witness ==
    /\ pc = "info_cleaned"
    /\ workflow = "create"
    /\ flavors.kind = "raise"
    /\ cleanResult = "raise"

\* C13 as stated: when the listing call fails, the step validates as if no
\* flavors exist.
C13_Original ==
    (pc = "info_cleaned" /\ flavors.kind = "raise") => cleanResult = "ok"

\* C13 amended: when the listing call fails, the empty listing assigned in
\* the except clause is never used: the step does not validate, nothing is
\* merged into the context, and the workflow leaves with the exception
\* instead of advancing to the next step.
C13_ListingFailureStopsWorkflow ==
    [][(pc = "info_cleaned" /\ flavors.kind = "raise") =>
          /\ cleanResult # "ok"
          /\ flavors.items = <<>>
          /\ pc' = "raised"
          /\ context' = context]_vars

C13_Witness ==
    /\ workflow = "update"
    /\ pc = "raised"
    /\ "name" \notin DOMAIN context
    /\ messages # <<>>
    /\ messages[Len(messages)].msg = "Unable to get flavor list"

\* C14: a step never runs before the fields it depends on are in the
\* context, and the steps run in declaration order: the access step has run
\* (its form is built) only with flavor_id in the context and after the info
\* step contributed; the info step has run only before the access step
\* contributed; in UpdateFlavor flavor_id is in the context from the start.
C14_DependsOnBeforeRun ==
    /\ pc = "access_form" =>
        /\ depends_on("UpdateFlavorAccess") \subseteq DOMAIN context
        /\ "flavor_id" \in DOMAIN context
        /\ "name" \in DOMAIN context
    /\ pc = "info_cleaned" =>
        /\ depends_on(InfoStep(workflow)) \subseteq DOMAIN context
        /\ "flavor_access" \notin DOMAIN context
    /\ (workflow = "create" /\ pc \in {"info", "info_cleaned"}) =>
        "flavor_id" \notin DOMAIN context
    /\ workflow = "update" => "flavor_id" \in DOMAIN context

C14_Witness ==
    /\ workflow = "create"
    /\ pc = "access_form"
    /\ Get(context, "flavor_id") = "4"
    /\ "flavor_access" \notin DOMAIN context

\* C15: on a request that is not a POST, with a flavor_id in the context, the
\* initial selection of the member field is the projects of the flavor's
\* access list when the flavor is not public and both lookups succeed, and
\* the empty list when the flavor is public or a lookup raises; a lookup that
\* raises is reported and the form is built all the same.
C15_AccessPrepopulation ==
    (pc = "access_form" /\ request.method # "POST"
        /\ Get(context, "flavor_id") \notin {"", NoneVal}) =>
        /\ member_field.has_initial
        /\ member_field.initial =
            IF request.get = "private" /\ request.access = "list"
            THEN request.projects
            ELSE <<>>
        /\ (request.get = "raise" \/ (request.get = "private" /\ request.access = "raise")) =>
            /\ messages # <<>>
            /\ messages[Len(messages)].msg = err_msg

C15_Witness ==
    /\ workflow = "update"
    /\ pc = "access_form"
    /\ request.method = "GET"
    /\ request.get = "private"
    /\ request.access = "list"
    /\ Len(member_field.initial) = 2

\* C16: the id given to Create's create call is the submitted flavor id when
\* that is not blank and 'auto' when it is blank or missing; it is never
\* blank.
C16_BlankIdBecomesAuto ==
    /\ \A fid \in SubmittedIds \cup {NoneVal} :
        /\ FlavorIdOrAuto(fid) \notin {"", NoneVal}
        /\ fid \in {"", NoneVal} => FlavorIdOrAuto(fid) = "auto"
    /\ workflow = "create" =>
        \A i \in 1..Len(calls) :
            calls[i].op = "flavor_create" =>
                /\ calls[i].flavor \notin {"", NoneVal}
                /\ calls[i].flavor =
                    IF Get(context, "flavor_id") \in {"", NoneVal}
                    THEN "auto"
                    ELSE Get(context, "flavor_id")

C16_Witness ==
    /\ workflow = "create"
    /\ Get(context, "flavor_id") = ""
    /\ Succeeded("flavor_create")
    /\ CallsOf("flavor_create")[1].flavor = "auto"

\* C17: the access step's merge, for every submission and the context the
\* step meets: with data, flavor_access becomes the submitted member selection
\* (the empty list without the member field) and every other key keeps its
\* value; without data the context is returned as it is; so the keys the
\* earlier steps put in the context are still there at finalize.
C17_ContributeFrame ==
    /\ pc = "access_form" =>
        \A data \in AccessData :
            LET c == contribute(data, context) IN
            IF DOMAIN data = {}
            THEN c = context
            ELSE /\ DOMAIN c = (DOMAIN context) \cup {"flavor_access"}
                 /\ c["flavor_access"] =
                        (IF MemberFieldName \in DOMAIN data
                         THEN data[MemberFieldName] ELSE <<>>)
                 /\ \A k \in (DOMAIN context) \ {"flavor_access"} : c[k] = context[k]
    /\ pc = "finalize" => {"flavor_id", "name"} \subseteq DOMAIN context

C17_Witness ==
    /\ pc = "finalize"
    /\ DOMAIN context = {"flavor_id", "name", "flavor_access"}
    /\ Len(context["flavor_access"]) = 2

\* C18: every grant call and every extra-specs set call addresses the id that
\* the successful create call of the same finalize returned; in Update that
\* is not the id of the deleted flavor, and the create call is given no id;
\* in Create with a blank or 'auto' id it is not the submitted id.
C18_CallsTargetCreatedFlavor ==
    \A i \in 1..Len(calls) :
        /\ calls[i].op \in {"add_tenant_to_flavor", "flavor_extra_set"} =>
            /\ \E j \in 1..(i - 1) :
                /\ calls[j].op = "flavor_create"
                /\ calls[j].ok
                /\ calls[i].flavor = calls[j].ret
            /\ workflow = "update" => calls[i].flavor # Get(context, "flavor_id")
            /\ (workflow = "create" /\ Get(context, "flavor_id") \in {"", "auto"}) =>
                calls[i].flavor # Get(context, "flavor_id")
        /\ (workflow = "update" /\ calls[i].op = "flavor_create") =>
            calls[i].flavor = NoneVal

C18_Witness ==
    /\ workflow = "update"
    /\ pc = "done"
    /\ Succeeded("flavor_extra_set")
    /\ Len(GrantCalls) = 2
    /\ GrantCalls[2].flavor \in GeneratedIds

\* C19: Update finalize returns True, and attempts a grant, only if every
\* call of its failure scope succeeded (the extra-specs read, the delete, the
\* create and, for a non-empty retained mapping, the extra-specs set); a call
\* of the scope that fails is the last call of the finalize, so no grant is
\* attempted, and the handler returns False.
C19_UpdateFailureScope ==
    workflow = "update" =>
        LET scope == {"flavor_get_extras", "flavor_delete", "flavor_create",
                      "flavor_extra_set"}
        IN  /\ (result = "True" \/ GrantCalls # <<>>) =>
                /\ Succeeded("flavor_get_extras")
                /\ Succeeded("flavor_delete")
                /\ Succeeded("flavor_create")
                /\ extras_dict # {} => Succeeded("flavor_extra_set")
                /\ \A op \in scope : ~Failed(op)
            /\ \A i \in 1..Len(calls) :
                (calls[i].op \in scope /\ ~calls[i].ok) =>
                    /\ i = Len(calls)
                    /\ GrantCalls = <<>>
                    /\ result # "True"
                    /\ pc = "done" => result = "False"

C19_Witness ==
    /\ workflow = "update"
    /\ pc = "done"
    /\ Succeeded("flavor_create")
    /\ Failed("flavor_extra_set")
    /\ Len(Selection) = 2
    /\ GrantCalls = <<>>
    /\ result = "False"

====
